---- MODULE Spec2Model ----
(***************************************************************************)
(* Model of the fan-controller dashboard component, src/src/App.js.        *)
(*                                                                         *)
(* The component's React state (data, currentTemp, currentFanSpeed,        *)
(* threshold, tempThreshold, lastUpdate, status), the listeners it puts on *)
(* the module-level socket, its requests in flight and its pending         *)
(* setTimeout callbacks are the state; every event handler, promise        *)
(* continuation and timer callback is one action.  JavaScript runs them    *)
(* one at a time, so each action is atomic.                                *)
(***************************************************************************)
EXTENDS Integers, Sequences, FiniteSets

(* ------------------------------ bounds --------------------------------- *)

\* data_update events the server emits in one run
MaxPush == 3
\* a bulk response may have been answered this many samples before delivery
MaxLag == 1
\* calls of fetchData (and of fetchConfig) waiting for their response
MaxFetch == 1
\* POST requests in flight plus setTimeout callbacks pending
MaxOutstanding == 2
\* clock steps per StatusResetDelay
TicksPerDelay == 3

(* ------------------------- program constants --------------------------- *)

\* [newDataPoint, ...prevData].slice(0, 50)
MaxPoints == 50
\* setTimeout(() => setStatus('idle'), 3000)
StatusResetDelay == 3000
\* <input type="range" min="20" max="40">
SliderMin == 20
SliderMax == 40
\* useState(30) of threshold and of tempThreshold
DefaultThreshold == 30

(* ---------------------------- environment ------------------------------ *)

\* thresholds the server reports: one inside the slider's range, one outside
ServerThresholds == {35, 45}
\* positions the user drags the slider towards
SliderInputs == {10, 25, 45}
\* lengths of the list GET /api/data answers with
BulkLens == {0, 1, 2, MaxPoints, MaxPoints + 1}
\* the order of that list: newest first (the server's contract) or oldest first
BulkOrders == {"newestFirst", "oldestFirst"}
\* timestamp of the newest sample the server holds when the page is opened
InitialClock == MaxPoints + 1 + MaxLag
TickMs == StatusResetDelay \div TicksPerDelay

\* the reading the device took at timestamp ts, as the server sends it
Reading(ts) ==
  [timestamp |-> ts, temperature |-> 20 + (ts % 4) * 5, fanSpeed |-> (ts % 3) * 40]

\* the JSON list of GET /api/data: len records, the newest taken at `last`
BulkResponse(len, last, order) ==
  [i \in 1..len |->
     IF order = "newestFirst" THEN Reading(last - i + 1)
     ELSE Reading(last - len + i)]

VARIABLES
  data,             \* useState([]): the chart's points
  currentTemp,      \* useState(0)
  currentFanSpeed,  \* useState(0)
  lastUpdate,       \* useState(null): <<>> is null, <<t>> is new Date(t)
  threshold,        \* useState(30): the applied threshold
  tempThreshold,    \* useState(30): the slider's (pending) threshold
  status,           \* useState('idle')
  mounted,          \* the component is mounted
  dataHandlers,     \* listeners of 'data_update' on socket
  configHandlers,   \* listeners of 'config_update' on socket
  dataReqs,         \* per fetchData call awaiting fetch(/api/data): the clock it was made at
  configReqs,       \* fetchConfig calls awaiting fetch(/api/config)
  writeReqs,        \* bodies of the POST /api/config requests in flight
  timers,           \* ms left of each pending setTimeout, in firing order
  sinceSettled,     \* ms since status was last set to 'success' or 'error'
  clock,            \* timestamp of the newest sample of the server
  feedNewestFirst,  \* every bulk response installed so far was newest first
  submitFrom,       \* the status Apply was last clicked in; "none" once idle again
  last              \* the handler or continuation that ran last

vars ==
  <<data, currentTemp, currentFanSpeed, lastUpdate, threshold, tempThreshold,
    status, mounted, dataHandlers, configHandlers, dataReqs, configReqs,
    writeReqs, timers, sinceSettled, clock, feedNewestFirst, submitFrom, last>>

seriesVars == <<data, currentTemp, currentFanSpeed, lastUpdate>>
thresholdVars == <<threshold, tempThreshold, status>>
timerVars == <<writeReqs, timers, sinceSettled>>
socketVars == <<mounted, dataHandlers, configHandlers>>

\* the values the state takes
TypeOK ==
  /\ data \in Seq([timestamp : Nat, temperature : Nat, fanSpeed : Nat])
  /\ currentTemp \in Nat
  /\ currentFanSpeed \in Nat
  /\ lastUpdate = <<>> \/ (Len(lastUpdate) = 1 /\ lastUpdate[1] \in Nat)
  /\ threshold \in Nat
  /\ tempThreshold \in Nat
  /\ status \in {"idle", "updating", "success", "error"}
  /\ mounted \in BOOLEAN
  /\ dataHandlers \in Nat
  /\ configHandlers \in Nat
  /\ dataReqs \in Seq(Nat)
  /\ configReqs \in Nat
  /\ writeReqs \in Seq(Nat)
  /\ timers \in Seq(0..StatusResetDelay)
  /\ sinceSettled \in 0..StatusResetDelay
  /\ clock \in Nat
  /\ feedNewestFirst \in BOOLEAN
  /\ submitFrom \in {"none", "idle", "success", "error"}
  /\ last \in STRING

(* ------------------------------ helpers -------------------------------- *)

\* Array.prototype.reverse
Reverse(s) == [i \in 1..Len(s) |-> s[Len(s) - i + 1]]

\* Array.prototype.slice(0, n)
SliceFront(s, n) == SubSeq(s, 1, IF Len(s) < n THEN Len(s) ELSE n)

\* jsonData.map(item => ({timestamp: new Date(item.timestamp), ...}))
ToPoint(item) ==
  [timestamp |-> item.timestamp, temperature |-> item.temperature,
   fanSpeed |-> item.fanSpeed]

\* ChartData without the reverse
ChartDataUnreversed(jsonData) == [i \in 1..Len(jsonData) |-> ToPoint(jsonData[i])]

\* the chartData of fetchData: the response mapped, then reversed
ChartData(jsonData) == Reverse([i \in 1..Len(jsonData) |-> ToPoint(jsonData[i])])

\* the setData updater of the data_update listener
PushPoint(prevData, newData) ==
  SliceFront(<<ToPoint(newData)>> \o prevData, MaxPoints)

\* the value a range input with min=20, max=40 reports for a drag towards raw
RangeValue(raw) ==
  IF raw < SliderMin THEN SliderMin ELSE IF raw > SliderMax THEN SliderMax ELSE raw

\* a sequence without its i-th element
RemoveAt(s, i) == SubSeq(s, 1, i - 1) \o SubSeq(s, i + 1, Len(s))

Outstanding == Len(writeReqs) + Len(timers)

(* ------------------------------- Init ---------------------------------- *)

Init ==
  /\ data = <<>>
  /\ currentTemp = 0
  /\ currentFanSpeed = 0
  /\ lastUpdate = <<>>
  /\ threshold = DefaultThreshold
  /\ tempThreshold = DefaultThreshold
  /\ status = "idle"
  /\ mounted = FALSE
  /\ dataHandlers = 0
  /\ configHandlers = 0
  /\ dataReqs = <<>>
  /\ configReqs = 0
  /\ writeReqs = <<>>
  /\ timers = <<>>
  /\ sinceSettled = 0
  /\ clock = InitialClock
  /\ feedNewestFirst = TRUE
  /\ submitFrom = "none"
  /\ last = "Init"

(* ------------------------ mount, unmount, refresh ---------------------- *)

\* useEffect(() => {...}, []): fetchData(), fetchConfig(), socket.on twice
Mount ==
  /\ ~mounted
  /\ mounted' = TRUE
  /\ dataReqs' = Append(dataReqs, clock)
  /\ configReqs' = configReqs + 1
  /\ dataHandlers' = dataHandlers + 1
  /\ configHandlers' = configHandlers + 1
  /\ UNCHANGED <<seriesVars, thresholdVars, timerVars, clock, feedNewestFirst,
                 submitFrom>>
  /\ last' = "Mount"

\* Unmount without the two socket.off calls
UnmountKeepsListeners ==
  /\ mounted
  /\ mounted' = FALSE
  /\ data' = <<>>
  /\ currentTemp' = 0
  /\ currentFanSpeed' = 0
  /\ lastUpdate' = <<>>
  /\ threshold' = DefaultThreshold
  /\ tempThreshold' = DefaultThreshold
  /\ status' = "idle"
  /\ dataReqs' = <<>>
  /\ configReqs' = 0
  /\ writeReqs' = <<>>
  /\ timers' = <<>>
  /\ sinceSettled' = 0
  /\ feedNewestFirst' = TRUE
  /\ submitFrom' = "none"
  /\ UNCHANGED <<clock, dataHandlers, configHandlers>>
  /\ last' = "Unmount"

\* the effect's cleanup: socket.off(event) drops every listener of the event.
\* The instance's state goes with it; what its requests and timers still
\* deliver goes to setters of the unmounted instance and shows nowhere.
Unmount ==
  /\ mounted
  /\ mounted' = FALSE
  /\ dataHandlers' = 0
  /\ configHandlers' = 0
  /\ data' = <<>>
  /\ currentTemp' = 0
  /\ currentFanSpeed' = 0
  /\ lastUpdate' = <<>>
  /\ threshold' = DefaultThreshold
  /\ tempThreshold' = DefaultThreshold
  /\ status' = "idle"
  /\ dataReqs' = <<>>
  /\ configReqs' = 0
  /\ writeReqs' = <<>>
  /\ timers' = <<>>
  /\ sinceSettled' = 0
  /\ feedNewestFirst' = TRUE
  /\ submitFrom' = "none"
  /\ UNCHANGED clock
  /\ last' = "Unmount"

\* handleRefresh: fetchData(); fetchConfig()
Refresh ==
  /\ mounted
  /\ Len(dataReqs) < MaxFetch
  /\ configReqs < MaxFetch
  /\ dataReqs' = Append(dataReqs, clock)
  /\ configReqs' = configReqs + 1
  /\ UNCHANGED <<seriesVars, thresholdVars, timerVars, socketVars, clock,
                 feedNewestFirst, submitFrom>>
  /\ last' = "Refresh"

(* ------------------------------ telemetry ------------------------------ *)

\* socket.on('data_update', ...): the server takes a new sample and emits it;
\* every registered listener runs
DataPush ==
  /\ clock < InitialClock + MaxPush
  /\ clock' = clock + 1
  /\ IF dataHandlers > 0
       THEN /\ currentTemp' = Reading(clock + 1).temperature
            /\ currentFanSpeed' = Reading(clock + 1).fanSpeed
            /\ lastUpdate' = <<Reading(clock + 1).timestamp>>
            /\ data' = PushPoint(data, Reading(clock + 1))
       ELSE UNCHANGED seriesVars
  /\ UNCHANGED <<thresholdVars, timerVars, socketVars, dataReqs, configReqs,
                 feedNewestFirst, submitFrom>>
  /\ last' = "DataPush"

\* fetchData after `await fetch`, response.ok: setData(chartData) and, when
\* chartData is not empty, the current values from its last element.  The
\* response holds the server's samples of the moment it was answered, which
\* is not before the request and up to MaxLag samples ago.
FetchDataOk(len, lag, order) ==
  /\ \E i \in 1..Len(dataReqs) :
       /\ dataReqs[i] <= clock - lag
       /\ dataReqs' = RemoveAt(dataReqs, i)
  /\ LET chartData == ChartData(BulkResponse(len, clock - lag, order)) IN
       /\ data' = chartData
       /\ IF Len(chartData) > 0
            THEN /\ currentTemp' = chartData[Len(chartData)].temperature
                 /\ currentFanSpeed' = chartData[Len(chartData)].fanSpeed
                 /\ lastUpdate' = <<chartData[Len(chartData)].timestamp>>
            ELSE UNCHANGED <<currentTemp, currentFanSpeed, lastUpdate>>
  /\ feedNewestFirst' = (feedNewestFirst /\ (order = "newestFirst" \/ len < 2))
  /\ UNCHANGED <<thresholdVars, timerVars, socketVars, configReqs, clock,
                 submitFrom>>
  /\ last' = "FetchDataOk"

\* FetchDataNotOk with the chart emptied on a failed load
FetchDataNotOkClears ==
  /\ \E i \in 1..Len(dataReqs) : dataReqs' = RemoveAt(dataReqs, i)
  /\ data' = <<>>
  /\ UNCHANGED <<currentTemp, currentFanSpeed, lastUpdate, thresholdVars,
                 timerVars, socketVars, configReqs, clock, feedNewestFirst,
                 submitFrom>>
  /\ last' = "FetchDataNotOk"

\* fetchData, response.ok false: nothing is set
FetchDataNotOk ==
  /\ \E i \in 1..Len(dataReqs) : dataReqs' = RemoveAt(dataReqs, i)
  /\ UNCHANGED <<seriesVars, thresholdVars, timerVars, socketVars, configReqs,
                 clock, feedNewestFirst, submitFrom>>
  /\ last' = "FetchDataNotOk"

\* fetchData, fetch rejects: the catch logs and nothing is set
FetchDataThrows ==
  /\ \E i \in 1..Len(dataReqs) : dataReqs' = RemoveAt(dataReqs, i)
  /\ UNCHANGED <<seriesVars, thresholdVars, timerVars, socketVars, configReqs,
                 clock, feedNewestFirst, submitFrom>>
  /\ last' = "FetchDataThrows"

(* ------------------------------- config -------------------------------- *)

\* ConfigPush without the setTempThreshold
ConfigPushKeepsPending(t) ==
  /\ configHandlers > 0
  /\ threshold' = t
  /\ UNCHANGED <<seriesVars, tempThreshold, status, timerVars, socketVars,
                 dataReqs, configReqs, clock, feedNewestFirst, submitFrom>>
  /\ last' = "ConfigPush"

\* socket.on('config_update', ...): setThreshold and setTempThreshold
ConfigPush(t) ==
  /\ configHandlers > 0
  /\ threshold' = t
  /\ tempThreshold' = t
  /\ UNCHANGED <<seriesVars, status, timerVars, socketVars, dataReqs,
                 configReqs, clock, feedNewestFirst, submitFrom>>
  /\ last' = "ConfigPush"

\* fetchConfig after `await fetch`, response.ok
FetchConfigOk(t) ==
  /\ configReqs > 0
  /\ configReqs' = configReqs - 1
  /\ threshold' = t
  /\ tempThreshold' = t
  /\ UNCHANGED <<seriesVars, status, timerVars, socketVars, dataReqs, clock,
                 feedNewestFirst, submitFrom>>
  /\ last' = "FetchConfigOk"

\* fetchConfig, response.ok false: nothing is set
FetchConfigNotOk ==
  /\ configReqs > 0
  /\ configReqs' = configReqs - 1
  /\ UNCHANGED <<seriesVars, thresholdVars, timerVars, socketVars, dataReqs,
                 clock, feedNewestFirst, submitFrom>>
  /\ last' = "FetchConfigNotOk"

\* fetchConfig, fetch rejects: the catch logs and nothing is set
FetchConfigThrows ==
  /\ configReqs > 0
  /\ configReqs' = configReqs - 1
  /\ UNCHANGED <<seriesVars, thresholdVars, timerVars, socketVars, dataReqs,
                 clock, feedNewestFirst, submitFrom>>
  /\ last' = "FetchConfigThrows"

(* ------------------------- threshold controller ------------------------ *)

\* SetPending that also clears the status badge
SetPendingResetsStatus(raw) ==
  /\ mounted
  /\ tempThreshold' = RangeValue(raw)
  /\ status' = "idle"
  /\ UNCHANGED <<seriesVars, threshold, timerVars, socketVars, dataReqs,
                 configReqs, clock, feedNewestFirst, submitFrom>>
  /\ last' = "SetPending"

\* the slider's onChange: setTempThreshold(Number(e.target.value))
SetPending(raw) ==
  /\ mounted
  /\ tempThreshold' = RangeValue(raw)
  /\ UNCHANGED <<seriesVars, threshold, status, timerVars, socketVars,
                 dataReqs, configReqs, clock, feedNewestFirst, submitFrom>>
  /\ last' = "SetPending"

\* the Apply button is rendered with disabled={status === 'updating'}
ApplyEnabled == status # "updating"

\* what any setStatus does to the time spent in 'success' or 'error'
Settle == sinceSettled' = 0

\* ScheduleReset without the setTimeout
ScheduleResetMissing == timers' = timers

\* the setTimeout(() => setStatus('idle'), 3000) of updateThreshold
ScheduleReset == timers' = Append(timers, StatusResetDelay)

\* Submit with an optimistic update of the applied threshold
SubmitOptimistic ==
  /\ mounted
  /\ ApplyEnabled
  /\ Outstanding < MaxOutstanding
  /\ status' = "updating"
  /\ writeReqs' = Append(writeReqs, tempThreshold)
  /\ Settle
  /\ submitFrom' = status
  /\ threshold' = tempThreshold
  /\ UNCHANGED <<seriesVars, tempThreshold, timers, socketVars, dataReqs,
                 configReqs, clock, feedNewestFirst>>
  /\ last' = "Submit"

\* a click on Apply: updateThreshold up to its `await fetch`
Submit ==
  /\ mounted
  /\ ApplyEnabled
  /\ Outstanding < MaxOutstanding
  /\ status' = "updating"
  /\ writeReqs' = Append(writeReqs, tempThreshold)
  /\ Settle
  /\ submitFrom' = status
  /\ UNCHANGED <<seriesVars, threshold, tempThreshold, timers, socketVars,
                 dataReqs, configReqs, clock, feedNewestFirst>>
  /\ last' = "Submit"

\* WriteOk that drops the response when pending was moved during the flight
WriteOkDropsStale(i, t) ==
  /\ i \in 1..Len(writeReqs)
  /\ writeReqs' = RemoveAt(writeReqs, i)
  /\ threshold' = IF tempThreshold = writeReqs[i] THEN t ELSE threshold
  /\ status' = "success"
  /\ ScheduleReset
  /\ Settle
  /\ UNCHANGED <<seriesVars, tempThreshold, socketVars, dataReqs, configReqs,
                 clock, feedNewestFirst, submitFrom>>
  /\ last' = "WriteOk"

\* updateThreshold after `await fetch`, response.ok, request i answered with t
WriteOk(i, t) ==
  /\ i \in 1..Len(writeReqs)
  /\ writeReqs' = RemoveAt(writeReqs, i)
  /\ threshold' = t
  /\ status' = "success"
  /\ ScheduleReset
  /\ Settle
  /\ UNCHANGED <<seriesVars, tempThreshold, socketVars, dataReqs, configReqs,
                 clock, feedNewestFirst, submitFrom>>
  /\ last' = "WriteOk"

\* updateThreshold, response.ok false
WriteNotOk(i) ==
  /\ i \in 1..Len(writeReqs)
  /\ writeReqs' = RemoveAt(writeReqs, i)
  /\ status' = "error"
  /\ ScheduleReset
  /\ Settle
  /\ UNCHANGED <<seriesVars, threshold, tempThreshold, socketVars, dataReqs,
                 configReqs, clock, feedNewestFirst, submitFrom>>
  /\ last' = "WriteNotOk"

\* updateThreshold, fetch rejects: the catch branch
WriteThrows(i) ==
  /\ i \in 1..Len(writeReqs)
  /\ writeReqs' = RemoveAt(writeReqs, i)
  /\ status' = "error"
  /\ ScheduleReset
  /\ Settle
  /\ UNCHANGED <<seriesVars, threshold, tempThreshold, socketVars, dataReqs,
                 configReqs, clock, feedNewestFirst, submitFrom>>
  /\ last' = "WriteThrows"

\* a due timer runs its callback: () => setStatus('idle')
TimerFires ==
  /\ timers # <<>>
  /\ Head(timers) = 0
  /\ timers' = Tail(timers)
  /\ status' = "idle"
  /\ Settle
  /\ submitFrom' = "none"
  /\ UNCHANGED <<seriesVars, threshold, tempThreshold, writeReqs, socketVars,
                 dataReqs, configReqs, clock, feedNewestFirst>>
  /\ last' = "TimerFires"

\* TickMs pass; a due timer runs before time moves on
Tick ==
  /\ timers # <<>>
  /\ Head(timers) > 0
  /\ timers' = [i \in 1..Len(timers) |-> timers[i] - TickMs]
  /\ sinceSettled' =
       IF status \in {"success", "error"} THEN sinceSettled + TickMs ELSE 0
  /\ UNCHANGED <<seriesVars, thresholdVars, writeReqs, socketVars, dataReqs,
                 configReqs, clock, feedNewestFirst, submitFrom>>
  /\ last' = "Tick"

(* --------------------------- specifications ---------------------------- *)

Lifecycle ==
  \/ Mount
  \/ Unmount
  \/ Refresh

Telemetry ==
  \/ DataPush
  \/ \E len \in BulkLens, lag \in 0..MaxLag, order \in BulkOrders :
       FetchDataOk(len, lag, order)

TelemetryFailure ==
  \/ FetchDataNotOk
  \/ FetchDataThrows

Config ==
  \/ \E t \in ServerThresholds : FetchConfigOk(t)
  \/ FetchConfigNotOk
  \/ FetchConfigThrows

Controller ==
  \/ \E t \in ServerThresholds : ConfigPush(t)
  \/ \E raw \in SliderInputs : SetPending(raw)
  \/ Submit
  \/ \E i \in 1..MaxOutstanding, t \in ServerThresholds : WriteOk(i, t)
  \/ \E i \in 1..MaxOutstanding : WriteNotOk(i)
  \/ \E i \in 1..MaxOutstanding : WriteThrows(i)
  \/ TimerFires
  \/ Tick

\* the whole component
Next == Lifecycle \/ Telemetry \/ TelemetryFailure \/ Config \/ Controller

Spec == Init /\ [][Next]_vars

\* the component while the user leaves the threshold card alone and no
\* config_update arrives
NextSeries == Lifecycle \/ Telemetry \/ TelemetryFailure \/ Config

SpecSeries == Init /\ [][NextSeries]_vars

\* the component while the server emits no data_update and every
\* GET /api/data fails
NextThreshold == Lifecycle \/ TelemetryFailure \/ Config \/ Controller

SpecThreshold == Init /\ [][NextThreshold]_vars

\* short lists of GET /api/data
ShortLens == {0, 2}

\* the threshold card is at rest: nothing edited, sent or waiting to reset
ControllerQuiet ==
  /\ status = "idle"
  /\ writeReqs = <<>>
  /\ timers = <<>>
  /\ tempThreshold = threshold

\* no telemetry has arrived yet
SeriesQuiet ==
  /\ data = <<>>
  /\ lastUpdate = <<>>
  /\ clock = InitialClock

\* the whole component in a session where telemetry arrives while the
\* threshold card is at rest, and the card is used before telemetry arrives
NextSession ==
  \/ Lifecycle
  \/ TelemetryFailure
  \/ Config
  \/ ControllerQuiet /\ DataPush
  \/ ControllerQuiet
       /\ \E len \in ShortLens, lag \in 0..MaxLag, order \in BulkOrders :
            FetchDataOk(len, lag, order)
  \/ SeriesQuiet /\ \E t \in ServerThresholds : ConfigPush(t)
  \/ SeriesQuiet /\ \E raw \in SliderInputs : SetPending(raw)
  \/ SeriesQuiet /\ Submit
  \/ SeriesQuiet
       /\ \E i \in 1..MaxOutstanding, t \in ServerThresholds : WriteOk(i, t)
  \/ SeriesQuiet /\ \E i \in 1..MaxOutstanding : WriteNotOk(i)
  \/ SeriesQuiet /\ \E i \in 1..MaxOutstanding : WriteThrows(i)
  \/ SeriesQuiet /\ TimerFires
  \/ SeriesQuiet /\ Tick

SpecSession == Init /\ [][NextSession]_vars

\* the response of a write request
WriteResponse ==
  \/ \E i \in 1..MaxOutstanding, t \in ServerThresholds : WriteOk(i, t)
  \/ \E i \in 1..MaxOutstanding : WriteNotOk(i)
  \/ \E i \in 1..MaxOutstanding : WriteThrows(i)

\* SpecThreshold where time passes, due timers run and every write request
\* gets its response
SpecLive ==
  /\ SpecThreshold
  /\ WF_vars(Tick)
  /\ WF_vars(TimerFires)
  /\ WF_vars(WriteResponse)

(* ------------------------- properties: the series ---------------------- *)

Range(s) == {s[i] : i \in 1..Len(s)}

\* oldest first, newest last
Chronological(s) ==
  \A i \in 1..(Len(s) - 1) : s[i].timestamp <= s[i + 1].timestamp

\* the k newest records of a response, whatever its order
Newest(resp, k) ==
  {r \in Range(resp) :
     Cardinality({q \in Range(resp) : q.timestamp > r.timestamp}) < k}

\* C1: in every reachable state the series buffer holds at most 50 samples,
\* whatever bulk responses and data_update events came before.
C1_AtMostMaxPoints == Len(data) <= MaxPoints

\* C6: as long as every bulk response was newest first (and every pushed
\* sample is newer than the buffered ones, as DataPush makes it), the buffer
\* is in chronological order, oldest first and newest last.
C6_Chronological == feedNewestFirst => Chronological(data)

\* C7: a data_update that arrives while the buffer holds 50 samples leaves
\* the pushed sample in the buffer and removes none but the oldest sample; so
\* after a newest-first bulk load of 50 the newest record of the load stays.
C7_PushEvictsOldest ==
  [][(clock' = clock + 1 /\ dataHandlers > 0 /\ feedNewestFirst
        /\ Len(data) = MaxPoints)
       => /\ ToPoint(Reading(clock')) \in Range(data')
          /\ \A k \in 1..Len(data) :
               data[k] \notin Range(data')
                 => \A j \in 1..Len(data) :
                      data[k].timestamp <= data[j].timestamp]_vars

\* C8: right after a successful bulk load the buffer is sorted by ascending
\* timestamp, whatever the order of the response, and holds the most recent
\* records of the response.
C8_BulkLoadSorted ==
  [][\A len \in BulkLens, lag \in 0..MaxLag, order \in BulkOrders :
       FetchDataOk(len, lag, order)
         => /\ Chronological(data')
            /\ Newest(BulkResponse(len, clock - lag, order), MaxPoints)
                 \subseteq Range(data')]_vars

(* ----------------------- properties: the threshold --------------------- *)

\* C2: Apply cannot be clicked while status is 'updating', and so at most
\* one POST /api/config is in flight at any time.
C2_OneWriteInFlight ==
  /\ status = "updating" => ~ENABLED Submit
  /\ Len(writeReqs) <= 1

\* C3: once a submit has set status to 'updating', status leaves 'updating'
\* only in the step that processes a response of a write request, never in
\* the step of a timer.
C3_UpdatingEndsByResponse ==
  [][(status = "updating" /\ status' # "updating" /\ mounted')
       => Len(writeReqs') < Len(writeReqs)]_vars

\* C4: status 'success' ends only by a new submit or, exactly
\* StatusResetDelay ms after it was entered, by the reset to 'idle'.
C4_SuccessLastsTheDelay ==
  [][(status = "success" /\ status' # "success" /\ mounted')
       => \/ status' = "updating"
          \/ status' = "idle" /\ sinceSettled = StatusResetDelay]_vars

\* C5: in every reachable state the pending threshold lies in [20, 40].
C5_PendingInRange == tempThreshold \in SliderMin..SliderMax

\* C9: the step that processes a success response carrying t sets applied
\* and pending to t.
C9_SuccessSyncsPending ==
  [][\A i \in 1..MaxOutstanding, t \in ServerThresholds :
       WriteOk(i, t) => threshold' = t /\ tempThreshold' = t]_vars

\* C10: a failed write takes status from 'updating' to 'error' and leaves
\* applied alone; after a submit from 'idle', 'updating' ends only in
\* 'success' or 'error', and the 'error' that follows ends only by a new
\* submit or, exactly StatusResetDelay ms after it was entered, by the reset
\* to 'idle'.
C10_FailurePath ==
  [][/\ \A i \in 1..MaxOutstanding :
          (WriteNotOk(i) \/ WriteThrows(i))
            => status' = "error" /\ threshold' = threshold
     /\ (submitFrom = "idle" /\ status = "updating" /\ status' # "updating"
           /\ mounted')
          => status' \in {"success", "error"}
     /\ (submitFrom = "idle" /\ status = "error" /\ status' # "error"
           /\ mounted')
          => \/ status' = "updating"
             \/ status' = "idle" /\ sinceSettled = StatusResetDelay]_vars

(* ------------------- properties: applied, loads, pushes ---------------- *)

\* C11: while the component is mounted, applied changes only in the step of
\* a successful config fetch, of a config_update push or of a successful
\* write response, and then to the threshold the server sent; no other step
\* (slider, submit, failed response, timer, data_update, bulk load) changes
\* it.
C11_AppliedOnlyFromServer ==
  [][(threshold' # threshold /\ mounted')
       => \E t \in ServerThresholds :
            /\ threshold' = t
            /\ \/ FetchConfigOk(t)
               \/ ConfigPush(t)
               \/ \E i \in 1..MaxOutstanding : WriteOk(i, t)]_vars

\* a timer has just fired with applied at a server value and pending at a
\* slider value
C11_Witness ==
  /\ last = "TimerFires"
  /\ threshold = 35
  /\ tempThreshold = 25

\* C12: the step that processes a failed bulk fetch or a failed config fetch
\* leaves the series buffer, the current values, applied, pending and status
\* as they were, and issues no request: the failed one is gone and no other
\* appears.
C12_FailedLoadKeepsState ==
  [][last' \in {"FetchDataNotOk", "FetchDataThrows", "FetchConfigNotOk",
                "FetchConfigThrows"}
       => /\ UNCHANGED <<data, currentTemp, currentFanSpeed, lastUpdate,
                         threshold, tempThreshold, status>>
          /\ Len(dataReqs') <= Len(dataReqs)
          /\ configReqs' <= configReqs
          /\ writeReqs' = writeReqs]_vars

\* a bulk fetch has just failed with samples in the buffer and a threshold
\* of the server applied
C12_Witness ==
  /\ last \in {"FetchDataNotOk", "FetchDataThrows"}
  /\ data # <<>>
  /\ threshold = 35

\* C13: a config_update push carrying t sets applied and pending to t and
\* leaves status as it was, whatever pending and status were.
C13_PushSetsBoth ==
  [][\A t \in ServerThresholds :
       ConfigPush(t) => threshold' = t /\ tempThreshold' = t /\ status' = status]_vars

\* a push has just arrived while a write carrying the edited pending value 25
\* is in flight
C13_Witness ==
  /\ last = "ConfigPush"
  /\ status = "updating"
  /\ writeReqs = <<25>>
  /\ threshold = 35
  /\ tempThreshold = 35

\* C14: in every reachable state the current values are those of the last
\* sample of the buffer, and (0, 0, null) when the buffer is empty.
C14_CurrentIsLastSample ==
  IF data = <<>>
    THEN currentTemp = 0 /\ currentFanSpeed = 0 /\ lastUpdate = <<>>
    ELSE /\ currentTemp = data[Len(data)].temperature
         /\ currentFanSpeed = data[Len(data)].fanSpeed
         /\ lastUpdate = <<data[Len(data)].timestamp>>

\* C15: the step that installs a non-empty newest-first response of at most
\* 50 records leaves the buffer equal to the response reversed, oldest first,
\* and the current values equal to the record with the greatest timestamp.
C15_BulkLoadReversed ==
  [][\A len \in BulkLens, lag \in 0..MaxLag :
       (0 < len /\ len <= MaxPoints /\ FetchDataOk(len, lag, "newestFirst"))
         => LET resp == BulkResponse(len, clock - lag, "newestFirst") IN
              /\ Len(data') = len
              /\ \A i \in 1..len : data'[i] = resp[len + 1 - i]
              /\ Chronological(data')
              /\ \A i \in 1..len : resp[i].timestamp <= resp[1].timestamp
              /\ lastUpdate' = <<resp[1].timestamp>>
              /\ currentTemp' = resp[1].temperature
              /\ currentFanSpeed' = resp[1].fanSpeed]_vars

\* a newest-first response of 50 records has just been installed
C15_Witness ==
  /\ last = "FetchDataOk"
  /\ feedNewestFirst
  /\ Len(data) = MaxPoints
  /\ data[1].timestamp < data[MaxPoints].timestamp

\* C16: while the component is mounted exactly one listener of data_update
\* and one of config_update are registered on the socket, and none is once it
\* is unmounted, however often it is mounted again.
C16_OneListenerPerEvent ==
  /\ mounted => dataHandlers = 1 /\ configHandlers = 1
  /\ ~mounted => dataHandlers = 0 /\ configHandlers = 0

\* the component has just been unmounted
C16_Witness ==
  /\ last = "Unmount"
  /\ ~mounted
  /\ dataHandlers = 0
  /\ configHandlers = 0

\* C17: a config_update push carrying p that arrives while a write request is
\* in flight sets applied to p and leaves the request in flight; the success
\* response carrying t that arrives later sets applied to t.
C17_LastCompletedWins ==
  [][/\ \A p \in ServerThresholds :
          (writeReqs # <<>> /\ ConfigPush(p))
            => threshold' = p /\ writeReqs' = writeReqs
     /\ \A i \in 1..MaxOutstanding, t \in ServerThresholds :
          WriteOk(i, t) => threshold' = t]_vars

\* a push carrying 45 has just arrived while a write request is in flight
C17_Witness ==
  /\ last = "ConfigPush"
  /\ writeReqs # <<>>
  /\ threshold = 45

\* C18: under SpecLive, 'updating' always ends, and 'success' and 'error'
\* always end in 'idle' or, by a new submit, in 'updating': without a new
\* submit status comes back to 'idle'.
C18_BackToIdle ==
  /\ (status = "updating") ~> (status # "updating")
  /\ (status \in {"success", "error"}) ~> (status \in {"idle", "updating"})

\* StatusResetDelay ms have passed in 'error' and its timer is due
C18_Witness ==
  /\ status = "error"
  /\ sinceSettled = StatusResetDelay
  /\ timers # <<>>
  /\ Head(timers) = 0

\* C19: the slider can be moved in every status; moving it changes pending
\* and nothing else, the requests in flight and their bodies included; a
\* submit sends the pending value of that moment, and the response of every
\* request in flight can still be processed.
C19_SetPendingFrame ==
  /\ [](mounted => \A raw \in SliderInputs : ENABLED SetPending(raw))
  /\ [](\A i \in 1..Len(writeReqs) :
          \A t \in ServerThresholds : ENABLED WriteOk(i, t))
  /\ [][/\ \A raw \in SliderInputs :
             SetPending(raw)
               => /\ tempThreshold' = RangeValue(raw)
                  /\ UNCHANGED <<status, threshold, data, currentTemp,
                                 currentFanSpeed, lastUpdate, writeReqs,
                                 timers, dataReqs, configReqs>>
        /\ Submit => writeReqs' = Append(writeReqs, tempThreshold)]_vars

\* the slider has just been moved to 25 while a request carrying 30 is in
\* flight
C19_Witness ==
  /\ last = "SetPending"
  /\ status = "updating"
  /\ writeReqs = <<30>>
  /\ tempThreshold = 25

\* C20: while the component is mounted the timestamp of the current values
\* never decreases, and a sample that a push has just delivered is still in
\* the buffer after a bulk response that installs samples.
C20_NoStaleOverwrite ==
  [][mounted'
       => /\ lastUpdate # <<>>
               => lastUpdate' # <<>> /\ lastUpdate'[1] >= lastUpdate[1]
          /\ (last = "DataPush" /\ dataHandlers > 0 /\ last' = "FetchDataOk"
                /\ data' # <<>>)
               => ToPoint(Reading(clock)) \in Range(data')]_vars

====
